---- MODULE Spec2Model ----
(***************************************************************************)
(* A model of gazebo/rendering/OculusCamera.cc: the adapter that drives a  *)
(* stereoscopic head-mounted display from the rendering engine.            *)
(*                                                                         *)
(* Floating-point quantities are modelled as exact rationals <<n, d>> in   *)
(* lowest terms with d > 0.  The only arithmetic the adapter performs on   *)
(* them is negation, halving (both exact in binary floating point) and the *)
(* addition 0.5 +/- x.  Quaternions are 4-tuples <<w, x, y, z>> of         *)
(* integers.                                                               *)
(***************************************************************************)
EXTENDS Integers, Sequences, FiniteSets, TLC

VARIABLES
  pc,              \* "new" | "ok" | "threw" | "crashed"
  deviceManager,   \* this->deviceManager
  hmd,             \* this->hmd
  sensor,          \* this->sensor
  sensorFusion,    \* this->sensorFusion (the handle)
  stereoConfig,    \* this->stereoConfig (the handle)
  stereo,          \* the StereoConfig object's content: its HMDInfo
  fusion,          \* the SensorFusion object's content
  centerOffset,    \* this->centerOffset
  controlSub,      \* this->controlSub: subscribed to ~/world_control
  inited,          \* Init() has run: rightCamera exists
  worldPose,       \* the scene node's pose <<pos, rot>>
  anim,            \* the pending camera animation (NULL or its target pose)
  cameras,         \* <<this->camera, this->rightCamera>>, index 1 = i == 0
  viewports,       \* <<this->viewport, this->rightViewport>>
  initialized,     \* this->initialized
  materials,       \* <<matLeft, matRight>> fragment program parameters
  rightCompMaterial, \* material name of compositor OculusRight's output pass
  compositors,     \* this->compositors[0..1]
  saveFrameBuffer, \* this->saveFrameBuffer
  nAdjust,         \* number of AdjustAspect calls so far (bounded)
  lastOp           \* history: the operation that ran last, with its input

vars == <<pc, deviceManager, hmd, sensor, sensorFusion, stereoConfig,
          stereo, fusion, centerOffset, controlSub, inited, worldPose, anim,
          cameras, viewports, initialized, materials, rightCompMaterial,
          compositors, saveFrameBuffer, nAdjust, lastOp>>

NULL == "NULL"

-----------------------------------------------------------------------------
(* Bounds of the model *)

MaxStage == 1
MaxAdjust == 1

-----------------------------------------------------------------------------
(* Exact rational arithmetic *)

Abs(n) == IF n < 0 THEN -n ELSE n

RECURSIVE Gcd(_, _)
Gcd(a, b) == IF b = 0 THEN a ELSE Gcd(b, a % b)

Rat(n, d) ==
  LET g == Gcd(Abs(n), Abs(d))
      s == IF d < 0 THEN -1 ELSE 1
  IN  <<(s * n) \div g, (s * d) \div g>>

RAdd(a, b) == Rat(a[1] * b[2] + b[1] * a[2], a[2] * b[2])
RNeg(a) == <<-a[1], a[2]>>
RSub(a, b) == RAdd(a, RNeg(b))
RMul(a, b) == Rat(a[1] * b[1], a[2] * b[2])
RInt(n) == <<n, 1>>

RZero == RInt(0)
ROne == RInt(1)
RHalf == Rat(1, 2)

-----------------------------------------------------------------------------
(* Program constants *)

g_defaultNearClip == Rat(1, 10)
g_defaultFarClip == RInt(5000)
g_defaultIPD == Rat(64, 1000)
g_defaultDistortion == <<ROne, Rat(22, 100), Rat(24, 100), RZero>>
defaultChromAb == <<Rat(996, 1000), Rat(-4, 1000), Rat(1014, 1000), RZero>>

-----------------------------------------------------------------------------
(* Vendor data: the HMD descriptions the SDK can hand to the adapter *)

\* What StereoConfig holds before SetHMDInfo: the SDK's built-in description.
SdkDefaultInfo ==
  [IPD |-> Rat(64, 1000),
   ProjectionCenterOffset |-> Rat(152, 1000),
   DistortionK |-> <<ROne, Rat(22, 100), Rat(24, 100), RZero>>,
   ChromaAbCorrection |-> <<ROne, RZero, ROne, RZero>>,
   EyeToScreenDistance |-> Rat(41, 1000),
   Aspect |-> Rat(8, 10),
   YFOVRadians |-> Rat(19, 10)]

\* What an attached HMD device may report through GetDeviceInfo.
DeviceInfos ==
  { [IPD |-> Rat(62, 1000),
     ProjectionCenterOffset |-> Rat(145, 1000),
     DistortionK |-> <<ROne, Rat(18, 100), Rat(115, 1000), Rat(3, 100)>>,
     ChromaAbCorrection |-> <<Rat(996, 1000), Rat(-4, 1000), Rat(1014, 1000), RZero>>,
     EyeToScreenDistance |-> Rat(39, 1000),
     Aspect |-> Rat(8, 10),
     YFOVRadians |-> Rat(2, 1)],
    [IPD |-> Rat(67, 1000),
     ProjectionCenterOffset |-> Rat(-3, 100),
     DistortionK |-> <<Rat(9, 10), Rat(25, 100), Rat(3, 10), Rat(1, 100)>>,
     ChromaAbCorrection |-> <<Rat(99, 100), Rat(-1, 100), Rat(102, 100), Rat(1, 1000)>>,
     EyeToScreenDistance |-> Rat(45, 1000),
     Aspect |-> Rat(9, 10),
     YFOVRadians |-> Rat(17, 10)] }

\* StereoConfig getters (the object's content is the HMD description)
GetProjectionCenterOffset(cfg) == cfg.ProjectionCenterOffset
GetDistortionK(cfg, i) == cfg.DistortionK[i + 1]
GetIPD(cfg) == cfg.IPD

\* The hardware construction may meet: whether the device manager, the HMD
\* device, the HMD's sensor and a stand-alone sensor device can be created,
\* and what the HMD reports about itself.
Envs ==
  [devMgr : BOOLEAN, hmd : BOOLEAN, hmdInfo : DeviceInfos,
   hmdSensor : BOOLEAN, sensorDev : BOOLEAN]

\* What the engine may answer to Oculus(): everything is there, the Oculus
\* material is missing, or the compositor cannot be instantiated.
OgreAnswers == {"ok", "noMaterial", "unsupported"}

-----------------------------------------------------------------------------
(* Orientations and poses *)

QIdentity == <<1, 0, 0, 0>>
Quats == {QIdentity, <<1, 2, 3, 4>>}

PoseInputs == {<<"p1", <<0, 1, 0, 0>>>>}
InitialPose == <<"origin", QIdentity>>
VisualPose == <<"atVisual", <<3, 0, 0, 1>>>>

\* OVR::SensorFusion: constructed with the identity orientation at stage 0.
FusionNew == [attached |-> NULL, prediction |-> FALSE, Q |-> QIdentity, Stage |-> 0]

\* SensorFusion::Reset(): back to the identity orientation, stage 0.
FusionReset(f) == [f EXCEPT !.Q = QIdentity, !.Stage = 0]

\* SensorFusion::GetPredictedOrientation(): Q stands for the orientation the
\* fusion currently predicts.
GetPredictedOrientation(f) == f.Q

\* math::Quaternion quat(q.w, -q.z, -q.x, q.y)
RemapNoAxisSwap(q) == <<q[1], -q[2], -q[3], q[4]>>
RemapAxes(q) == <<q[1], -q[4], -q[2], q[3]>>

-----------------------------------------------------------------------------
(* World control messages (protobuf: an absent field reads as its default) *)

ControlMsgs ==
  { [has_reset |-> FALSE, has_all |-> FALSE, all |-> FALSE],
    [has_reset |-> TRUE, has_all |-> FALSE, all |-> FALSE],
    [has_reset |-> TRUE, has_all |-> TRUE, all |-> FALSE],
    [has_reset |-> TRUE, has_all |-> TRUE, all |-> TRUE] }

ResetOnAnyAll(m) == m.has_reset /\ m.has_all
IsResetAll(m) == m.has_reset /\ m.has_all /\ m.all

-----------------------------------------------------------------------------
(* Engine objects the adapter mirrors *)

NoAnim == <<>>
NoViewport == <<>>
Unset == <<>>
NoMaterial == [exists |-> FALSE, HmdWarpParam |-> Unset, ChromAbParam |-> Unset,
               LensCenter |-> Unset]
NoCompositor == [name |-> "NULL", viewport |-> -1, enabled |-> FALSE]

\* The material "Ogre/Compositor/Oculus" as the engine's material script
\* declares it, before Oculus() sets its shader constants.
ScriptMaterial == [exists |-> TRUE, HmdWarpParam |-> Unset,
                   ChromAbParam |-> Unset, LensCenter |-> Unset]

\* An Ogre camera as Init() leaves it: default clip planes, at the node's
\* origin, no custom projection.
NewCamera ==
  [near |-> g_defaultNearClip, far |-> g_defaultFarClip,
   pos |-> <<RZero, RZero, RZero>>, aspect |-> Rat(4, 3),
   fovy |-> Rat(785, 1000), customProj |-> FALSE, projTrans |-> RZero]

\* Viewport dimensions <<left, top, width, height>>
FullViewport == <<RZero, RZero, ROne, ROne>>
LeftHalf == <<RZero, RZero, RHalf, ROne>>
RightHalf == <<RHalf, RZero, RHalf, ROne>>

-----------------------------------------------------------------------------
(* Construction: OculusCamera::OculusCamera *)

\* A new-expression yields the object or throws; it never yields null, so
\* the null tests that follow the two new-expressions cannot succeed.
New(obj) == obj

\* if (!this->sensor) gzthrow(...)
CtorAcceptsAnySensor(s) == FALSE
CtorThrowsNoSensor(s) == s = NULL

\* The sensor the constructor ends up with: the HMD's own when the HMD was
\* created, a directly enumerated sensor device only when it was not.
CtorSensor(e) ==
  IF e.hmd
    THEN (IF e.hmdSensor THEN "hmdSensor" ELSE NULL)
    ELSE (IF e.sensorDev THEN "sensorDevice" ELSE NULL)

\* The StereoConfig content after the HMD branch: SetHMDInfo(devinfo) or the
\* SDK's defaults.
CtorStereo(e) == IF e.hmd THEN e.hmdInfo ELSE SdkDefaultInfo

NoOp == [name |-> "none", arg |-> NULL]

Init ==
  /\ pc = "new"
  /\ deviceManager = NULL
  /\ hmd = NULL
  /\ sensor = NULL
  /\ sensorFusion = NULL
  /\ stereoConfig = NULL
  /\ stereo = NULL
  /\ fusion = NULL
  /\ centerOffset = NULL
  /\ controlSub = FALSE
  /\ inited = FALSE
  /\ worldPose = InitialPose
  /\ anim = NoAnim
  /\ cameras = <<NULL, NULL>>
  /\ viewports = <<NoViewport, NoViewport>>
  /\ initialized = FALSE
  /\ materials = <<ScriptMaterial, NoMaterial>>
  /\ rightCompMaterial = NULL
  /\ compositors = <<NoCompositor, NoCompositor>>
  /\ saveFrameBuffer = NULL
  /\ nAdjust = 0
  /\ lastOp = NoOp

Construct ==
  /\ pc = "new"
  /\ UNCHANGED <<inited, worldPose, anim, cameras, viewports, initialized,
                 materials, rightCompMaterial, compositors, saveFrameBuffer,
                 nAdjust>>
  /\ \E e \in Envs :
     /\ lastOp' = [name |-> "Construct", arg |-> e]
     /\ IF ~e.devMgr
          THEN /\ pc' = "threw"
               /\ UNCHANGED <<deviceManager, hmd, sensor, sensorFusion,
                              stereoConfig, stereo, fusion, centerOffset,
                              controlSub>>
          ELSE /\ deviceManager' = "deviceManager"
               /\ stereoConfig' = New("stereoConfig")
               /\ IF stereoConfig' = NULL
                    THEN /\ pc' = "threw"
                         /\ UNCHANGED <<hmd, sensor, sensorFusion, stereo,
                                        fusion, centerOffset, controlSub>>
                    ELSE /\ centerOffset' = GetProjectionCenterOffset(SdkDefaultInfo)
                         /\ hmd' = IF e.hmd THEN "hmd" ELSE NULL
                         /\ stereo' = CtorStereo(e)
                         /\ sensor' = CtorSensor(e)
                         /\ IF CtorThrowsNoSensor(sensor')
                              THEN /\ pc' = "threw"
                                   /\ UNCHANGED <<sensorFusion, fusion, controlSub>>
                              ELSE /\ pc' = "ok"
                                   /\ sensorFusion' = New("sensorFusion")
                                   /\ IF sensorFusion' = NULL
                                        THEN UNCHANGED <<fusion, controlSub>>
                                        ELSE /\ fusion' = [FusionNew EXCEPT
                                                             !.attached = sensor',
                                                             !.prediction = TRUE]
                                             /\ controlSub' = TRUE

-----------------------------------------------------------------------------
(* OculusCamera::Oculus(): the stereo set-up *)

\* hmdwarp: the stereo configuration's distortion, or the built-in default
HmdWarpAlwaysDefault(h, cfg) == g_defaultDistortion
HmdWarp(h, cfg) ==
  IF h # NULL
    THEN <<GetDistortionK(cfg, 0), GetDistortionK(cfg, 1),
           GetDistortionK(cfg, 2), GetDistortionK(cfg, 3)>>
    ELSE g_defaultDistortion

\* hmdchrom
HmdChrom(h, cfg) == IF h # NULL THEN cfg.ChromaAbCorrection ELSE defaultChromAb

\* LensCenter: 0.5f +/- GetProjectionCenterOffset()/2.0f (i = 0 left, 1 right)
LensCenterSameSide(i, pco) == RAdd(RHalf, RMul(pco, RHalf))
LensCenter(i, pco) ==
  IF i = 0 THEN RAdd(RHalf, RMul(pco, RHalf)) ELSE RSub(RHalf, RMul(pco, RHalf))

\* int idx = i * 2 - 1
Idx(i) == i * 2 - 1

\* cam->setPosition(0, idx * GetIPD() * 0.5f * -1.0, 0)
EyePositionNoFlip(i, ipd) ==
  <<RZero, RMul(RMul(RInt(Idx(i)), ipd), RHalf), RZero>>
EyePosition(i, ipd) ==
  <<RZero, RMul(RMul(RMul(RInt(Idx(i)), ipd), RHalf), RInt(-1)), RZero>>

\* cam->setPosition(idx * g_defaultIPD * 0.5f, 0, 0)
EyePositionDefault(i) ==
  <<RMul(RMul(RInt(Idx(i)), g_defaultIPD), RHalf), RZero, RZero>>

\* proj.setTrans(Vector3(-GetProjectionCenterOffset() * idx, 0, 0))
ProjTrans(i, pco) == RMul(RNeg(pco), RInt(Idx(i)))

\* The loop body's camera set-up for eye i
EyeCamera(cam, i, h, cfg) ==
  IF h # NULL
    THEN [cam EXCEPT !.near = cfg.EyeToScreenDistance,
                     !.far = g_defaultFarClip,
                     !.pos = EyePosition(i, GetIPD(cfg)),
                     !.aspect = cfg.Aspect,
                     !.fovy = cfg.YFOVRadians,
                     !.customProj = TRUE,
                     !.projTrans = ProjTrans(i, GetProjectionCenterOffset(cfg))]
    ELSE [cam EXCEPT !.near = g_defaultNearClip,
                     !.far = g_defaultFarClip,
                     !.pos = EyePositionDefault(i)]

\* addCompositor(viewport, name) followed by setEnabled(true); the engine
\* returns no instance when it does not support the compositor.
EyeCompositorRightOff(i, supported) ==
  IF supported
    THEN [name |-> IF i = 0 THEN "OculusLeft" ELSE "OculusRight",
          viewport |-> i, enabled |-> (i = 0)]
    ELSE NoCompositor
EyeCompositor(i, supported) ==
  IF supported
    THEN [name |-> IF i = 0 THEN "OculusLeft" ELSE "OculusRight",
          viewport |-> i, enabled |-> TRUE]
    ELSE NoCompositor

\* What reading GetProjectionCenterOffset() through a null stereoConfig can
\* do: fault, or yield an arbitrary value.
UBOutcomes == {"crash", "garbage"}
GarbageOffset == Rat(7, 1)

\* Oculus() as a function of the state it runs in; ub resolves the null
\* dereference of lines 589-593 when stereoConfig is null.  A null material,
\* a null compositor resource or a null compositor instance is dereferenced
\* through an out-of-line engine call, which faults.
Oculus(cams, ogre, ub) ==
  LET h == stereoConfig
      cfg == stereo
      unchanged == [materials |-> materials, rightCompMaterial |-> rightCompMaterial,
                    cameras |-> cams, compositors |-> compositors, pc |-> pc]
      warped == [materials[1] EXCEPT !.HmdWarpParam = HmdWarp(h, cfg),
                                       !.ChromAbParam = HmdChrom(h, cfg)]
      pco == IF h # NULL THEN GetProjectionCenterOffset(cfg) ELSE GarbageOffset
      mats == <<[warped EXCEPT !.LensCenter = LensCenter(0, pco)],
                [warped EXCEPT !.LensCenter = LensCenter(1, pco)]>>
      \* from here on a compiler may take either branch of the later
      \* if (this->stereoConfig) once the pointer has been dereferenced; the
      \* model follows the test as written
      cam0 == EyeCamera(cams[1], 0, h, cfg)
      cam1 == EyeCamera(cams[2], 1, h, cfg)
      supported == ogre = "ok"
  IN  IF ogre = "noMaterial"
        THEN [unchanged EXCEPT !.pc = "crashed"]
      ELSE IF h = NULL /\ ub = "crash"
        THEN [unchanged EXCEPT !.materials = <<warped, warped>>,
                               !.pc = "crashed"]
      ELSE IF ~supported
        THEN [materials |-> mats,
              rightCompMaterial |-> "Ogre/Compositor/Oculus/Right",
              cameras |-> <<cam0, cams[2]>>,
              compositors |-> <<EyeCompositor(0, supported), compositors[2]>>,
              pc |-> "crashed"]
      ELSE [materials |-> mats,
            rightCompMaterial |-> "Ogre/Compositor/Oculus/Right",
            cameras |-> <<cam0, cam1>>,
            compositors |-> <<EyeCompositor(0, supported),
                              EyeCompositor(1, supported)>>,
            pc |-> "ok"]

-----------------------------------------------------------------------------
(* Base-class behaviour the adapter delegates to *)

\* Camera::SetWorldPose / Camera::SetWorldRotation: store what was asked.
Camera_SetWorldPose(pose) == pose
Camera_SetWorldRotation(pose, quat) == <<pose[1], quat>>

\* Camera::Update: a pending animation moves the node to its target.
Camera_Update(pose, a) == IF a = NoAnim THEN pose ELSE a

\* Camera::PostRender: the frame is captured into saveFrameBuffer.
Camera_PostRender(buf) == "buffer"

-----------------------------------------------------------------------------
(* Operations *)

Running == pc = "ok"
Ready == Running /\ inited

Op(n, a) == lastOp' = [name |-> n, arg |-> a]

devices == <<deviceManager, hmd, sensor, sensorFusion, stereoConfig, stereo,
             centerOffset, controlSub>>
engine == <<cameras, viewports, initialized, materials, rightCompMaterial,
            compositors, saveFrameBuffer, nAdjust>>

Load ==
  /\ Running /\ ~inited
  /\ Op("Load", NULL)
  /\ UNCHANGED <<pc, devices, fusion, inited, worldPose, anim, engine>>

InitCamera ==
  /\ Running /\ ~inited
  /\ inited' = TRUE
  /\ cameras' = <<NewCamera, NewCamera>>
  /\ Op("Init", NULL)
  /\ UNCHANGED <<pc, devices, fusion, worldPose, anim, viewports,
                 initialized, materials, rightCompMaterial, compositors,
                 saveFrameBuffer, nAdjust>>

SetWorldPose ==
  /\ Ready
  /\ \E pose \in PoseInputs :
       /\ worldPose' = Camera_SetWorldPose(pose)
       /\ Op("SetWorldPose", NULL)
  /\ UNCHANGED <<pc, devices, fusion, inited, anim, engine>>

\* The rotation Update() hands to SetWorldRotation
UpdateRotation(f) == RemapAxes(GetPredictedOrientation(f))

Update ==
  /\ Ready
  /\ LET moved == Camera_Update(worldPose, anim)
     IN  worldPose' = Camera_SetWorldRotation(moved, UpdateRotation(fusion))
  /\ anim' = NoAnim
  /\ Op("Update", NULL)
  /\ UNCHANGED <<pc, devices, fusion, inited, engine>>

ResetSensor ==
  /\ Running
  /\ fusion' = FusionReset(fusion)
  /\ Op("ResetSensor", NULL)
  /\ UNCHANGED <<pc, devices, inited, worldPose, anim, engine>>

OnControl ==
  /\ Running
  /\ \E m \in ControlMsgs :
       /\ fusion' = IF IsResetAll(m) THEN FusionReset(fusion) ELSE fusion
       /\ Op("OnControl", m)
  /\ UNCHANGED <<pc, devices, inited, worldPose, anim, engine>>

\* The sensor delivers a message: the fusion's predicted orientation moves.
SensorData ==
  /\ Running
  /\ fusion.Stage < MaxStage
  /\ \E q \in Quats :
       /\ fusion' = [fusion EXCEPT !.Q = q, !.Stage = @ + 1]
       /\ Op("SensorData", NULL)
  /\ UNCHANGED <<pc, devices, inited, worldPose, anim, engine>>

PostRender ==
  /\ Ready /\ initialized
  /\ saveFrameBuffer' = Camera_PostRender(saveFrameBuffer)
  /\ Op("PostRender", NULL)
  /\ UNCHANGED <<pc, devices, fusion, inited, worldPose, anim, cameras,
                 viewports, initialized, materials, rightCompMaterial,
                 compositors, nAdjust>>

\* Fini() releases nothing of the adapter's own
FiniReleasesDevices ==
  /\ sensorFusion' = NULL
  /\ UNCHANGED <<deviceManager, hmd, sensor, stereoConfig, stereo,
                 centerOffset, controlSub>>
FiniDevices == UNCHANGED devices

Fini ==
  /\ Running
  /\ pc' = "fini"
  /\ FiniDevices
  /\ Op("Fini", NULL)
  /\ UNCHANGED <<fusion, inited, worldPose, anim, engine>>

\* The input handlers: their bodies are empty
EmptyBodied ==
  {"HandleMouseEvent", "HandleKeyPressEvent", "HandleKeyReleaseEvent"}

NoEffect ==
  /\ Running
  /\ \E n \in EmptyBodied : Op(n, NULL)
  /\ UNCHANGED <<pc, devices, fusion, inited, worldPose, anim, engine>>

Resize ==
  /\ Ready
  /\ IF viewports[1] # NoViewport
       THEN /\ viewports' = <<LeftHalf, RightHalf>>
            /\ saveFrameBuffer' = NULL
       ELSE UNCHANGED <<viewports, saveFrameBuffer>>
  /\ Op("Resize", NULL)
  /\ UNCHANGED <<pc, devices, fusion, inited, worldPose, anim, cameras,
                 initialized, materials, rightCompMaterial, compositors,
                 nAdjust>>

MoveToPosition ==
  /\ Ready
  /\ \E pose \in PoseInputs :
       /\ anim' = pose
       /\ Op("MoveToPosition", NULL)
  /\ UNCHANGED <<pc, devices, fusion, inited, worldPose, engine>>

MoveToVisual ==
  /\ Ready
  /\ \E known \in BOOLEAN :
       /\ anim' = IF known THEN VisualPose ELSE anim
       /\ Op("MoveToVisual", NULL)
  /\ UNCHANGED <<pc, devices, fusion, inited, worldPose, engine>>

SetRenderTarget ==
  /\ Ready
  /\ viewports[1] = NoViewport
  /\ \E ogre \in OgreAnswers, ub \in UBOutcomes :
       LET r == Oculus(cameras, ogre, ub)
       IN  /\ viewports' = <<FullViewport, RightHalf>>
           /\ initialized' = TRUE
           /\ materials' = r.materials
           /\ rightCompMaterial' = r.rightCompMaterial
           /\ cameras' = r.cameras
           /\ compositors' = r.compositors
           /\ pc' = r.pc
           /\ Op("SetRenderTarget", ogre)
  /\ UNCHANGED <<devices, fusion, inited, worldPose, anim,
                 saveFrameBuffer, nAdjust>>

AspectSteps == {Rat(1, 10), Rat(-1, 10)}

AdjustAspect ==
  /\ Ready
  /\ nAdjust < MaxAdjust
  /\ \E v \in AspectSteps :
       /\ cameras' = <<[cameras[1] EXCEPT !.aspect = RAdd(@, v)],
                       [cameras[2] EXCEPT !.aspect = RAdd(@, v)]>>
       /\ Op("AdjustAspect", NULL)
  /\ nAdjust' = nAdjust + 1
  /\ UNCHANGED <<pc, devices, fusion, inited, worldPose, anim, viewports,
                 initialized, materials, rightCompMaterial, compositors,
                 saveFrameBuffer>>

Operate ==
  \/ Load
  \/ InitCamera
  \/ SetWorldPose
  \/ Update
  \/ ResetSensor
  \/ OnControl
  \/ SensorData
  \/ PostRender
  \/ Fini
  \/ NoEffect
  \/ Resize
  \/ MoveToPosition
  \/ MoveToVisual
  \/ SetRenderTarget
  \/ AdjustAspect

Next == Construct \/ Operate

Spec == Init /\ [][Next]_vars

-----------------------------------------------------------------------------
(* Oculus() as a function of the stereo configuration it is handed.  The     *)
(* constructor never leaves stereoConfig null, so the branches of Oculus()   *)
(* that test it are exercised here: the run starts from the state the        *)
(* constructor leaves, with stereoConfig drawn from null and the vendor's    *)
(* configurations.                                                           *)

StereoInputs == {SdkDefaultInfo} \cup DeviceInfos

InitOculus ==
  /\ pc = "ok"
  /\ deviceManager = "deviceManager"
  /\ hmd = NULL
  /\ sensor = "sensorDevice"
  /\ sensorFusion = "sensorFusion"
  /\ \/ stereoConfig = NULL /\ stereo = NULL
     \/ stereoConfig = "stereoConfig" /\ stereo \in StereoInputs
  /\ fusion = [FusionNew EXCEPT !.attached = sensor, !.prediction = TRUE]
  /\ centerOffset = GetProjectionCenterOffset(SdkDefaultInfo)
  /\ controlSub = TRUE
  /\ inited = FALSE
  /\ worldPose = InitialPose
  /\ anim = NoAnim
  /\ cameras = <<NULL, NULL>>
  /\ viewports = <<NoViewport, NoViewport>>
  /\ initialized = FALSE
  /\ materials = <<ScriptMaterial, NoMaterial>>
  /\ rightCompMaterial = NULL
  /\ compositors = <<NoCompositor, NoCompositor>>
  /\ saveFrameBuffer = NULL
  /\ nAdjust = 0
  /\ lastOp = NoOp

SpecOculus == InitOculus /\ [][Operate]_vars

-----------------------------------------------------------------------------
(* Properties *)

Alive == pc \in {"ok", "fini"}
HalfOf(r) == Rat(r[1], 2 * r[2])

\* C1: every Update() leaves the camera's world rotation equal to the
\* orientation the sensor fusion predicts at that call, remapped as
\* (w, x, y, z) = (q.w, -q.z, -q.x, q.y), whatever rotation was set before.
C1_UpdateSetsRemappedRotation ==
  lastOp.name = "Update" =>
    worldPose[2] = <<fusion.Q[1], -fusion.Q[4], -fusion.Q[2], fusion.Q[3]>>

\* An Update() after SetWorldPose() moved the camera to p1 with another
\* rotation: the rotation is the remapped sensor orientation.
C1_Witness ==
  /\ lastOp.name = "Update"
  /\ worldPose[1] = "p1"
  /\ fusion.Q = <<1, 2, 3, 4>>
  /\ worldPose[2] = <<1, -4, -2, 3>>

\* C2: once SetRenderTarget() has run Oculus() with a stereo configuration,
\* the left camera sits at (0, +IPD/2, 0) and the right camera at
\* (0, -IPD/2, 0); the two differ by exactly IPD along y.
C2_EyesSeparatedByIPD ==
  (Alive /\ initialized /\ stereoConfig # NULL) =>
    /\ cameras[1].pos = <<RZero, HalfOf(stereo.IPD), RZero>>
    /\ cameras[2].pos = <<RZero, RNeg(HalfOf(stereo.IPD)), RZero>>
    /\ RSub(cameras[1].pos[2], cameras[2].pos[2]) = stereo.IPD

C2_Witness ==
  /\ lastOp.name = "SetRenderTarget"
  /\ pc = "ok"
  /\ initialized
  /\ stereo.IPD = Rat(62, 1000)
  /\ cameras[1].pos = <<RZero, Rat(31, 1000), RZero>>
  /\ cameras[2].pos = <<RZero, Rat(-31, 1000), RZero>>

C4_DistortionActiveWhenInitialized ==
  /\ (Alive /\ lastOp.name = "SetRenderTarget") => initialized
  /\ (Alive /\ initialized) =>
       /\ compositors[1] = [name |-> "OculusLeft", viewport |-> 0, enabled |-> TRUE]
       /\ compositors[2] = [name |-> "OculusRight", viewport |-> 1, enabled |-> TRUE]
       /\ rightCompMaterial = "Ogre/Compositor/Oculus/Right"
       /\ materials[2].exists

C4_Witness ==
  /\ lastOp.name = "SetRenderTarget"
  /\ pc = "ok"
  /\ initialized
  /\ compositors[1].enabled /\ compositors[1].name = "OculusLeft"
  /\ compositors[2].enabled /\ compositors[2].name = "OculusRight"

\* C5: with a stereo configuration present, HmdWarpParam is the
\* configuration's (K0, K1, K2, K3) and ChromAbParam is its HMD info's
\* ChromaAbCorrection, on the left and on the right material alike, and no
\* later operation changes them.
C5_CoefficientsFromVendor ==
  (Alive /\ initialized /\ stereoConfig # NULL) =>
    /\ materials[1].HmdWarpParam = stereo.DistortionK
    /\ materials[2].HmdWarpParam = stereo.DistortionK
    /\ materials[1].ChromAbParam = stereo.ChromaAbCorrection
    /\ materials[2].ChromAbParam = stereo.ChromaAbCorrection

C5_Witness ==
  /\ pc = "ok"
  /\ initialized
  /\ hmd # NULL
  /\ lastOp.name = "AdjustAspect"
  /\ materials[1].HmdWarpParam = <<RInt(1), Rat(18, 100), Rat(115, 1000), Rat(3, 100)>>
  /\ materials[2].HmdWarpParam = <<RInt(1), Rat(18, 100), Rat(115, 1000), Rat(3, 100)>>
  /\ materials[2].ChromAbParam = <<Rat(996, 1000), Rat(-4, 1000), Rat(1014, 1000), RZero>>

\* C6: once construction has succeeded the device manager, the sensor, the
\* sensor fusion and the stereo configuration are non-null, and no operation
\* changes any of the five handles (hmd may be null from the start).
C6_HandlesOwnedForLifetime ==
  /\ [](pc \in {"ok", "fini", "crashed"} =>
         /\ deviceManager # NULL
         /\ sensor # NULL
         /\ sensorFusion # NULL
         /\ stereoConfig # NULL)
  /\ [][pc # "new" =>
          /\ deviceManager' = deviceManager
          /\ hmd' = hmd
          /\ sensor' = sensor
          /\ sensorFusion' = sensorFusion
          /\ stereoConfig' = stereoConfig]_vars

\* The handles are intact after a sensor reset, a render-target set-up and
\* Fini(), here without an HMD.
C6_Witness ==
  /\ pc = "fini"
  /\ initialized
  /\ hmd = NULL
  /\ fusion.Stage = 0
  /\ sensorFusion = "sensorFusion"
  /\ stereoConfig = "stereoConfig"

\* C7: construction throws exactly when the device manager cannot be created
\* or the path taken yields no sensor; the sensor is the HMD's when the HMD
\* was created (its info then stored in the stereo configuration) and a
\* directly enumerated one only when it was not; after a throw no sensor
\* fusion is attached and there is no subscription; after success the sensor
\* fusion is attached to the sensor with prediction enabled and the
\* world_control subscription is registered.
C7_ConstructionOutcomes ==
  /\ pc = "threw" => (sensorFusion = NULL /\ ~controlSub)
  /\ pc \in {"ok", "fini", "crashed"} =>
       /\ deviceManager # NULL
       /\ sensor # NULL
       /\ sensorFusion # NULL
       /\ fusion.attached = sensor
       /\ fusion.prediction
       /\ controlSub
  /\ lastOp.name = "Construct" =>
       LET e == lastOp.arg
       IN  /\ ~e.devMgr => (pc = "threw" /\ deviceManager = NULL)
           /\ (e.devMgr /\ e.hmd) =>
                /\ hmd # NULL
                /\ stereo = e.hmdInfo
                /\ sensor = IF e.hmdSensor THEN "hmdSensor" ELSE NULL
           /\ (e.devMgr /\ ~e.hmd) =>
                /\ hmd = NULL
                /\ sensor = IF e.sensorDev THEN "sensorDevice" ELSE NULL
           /\ pc = "threw" <=> (~e.devMgr \/ sensor = NULL)

\* The HMD is created but has no sensor: construction throws although a
\* stand-alone sensor device is available.
C7_Witness ==
  /\ lastOp.name = "Construct"
  /\ lastOp.arg.hmd /\ ~lastOp.arg.hmdSensor /\ lastOp.arg.sensorDev
  /\ pc = "threw"
  /\ hmd # NULL

C9_ResetOnlyOnResetAll ==
  [][/\ lastOp'.name = "OnControl" =>
          LET m == lastOp'.arg
          IN  /\ (m.has_reset /\ m.has_all /\ m.all) =>
                   fusion' = [fusion EXCEPT !.Q = <<1, 0, 0, 0>>, !.Stage = 0]
              /\ ~(m.has_reset /\ m.has_all /\ m.all) => fusion' = fusion
              /\ UNCHANGED <<pc, devices, inited, worldPose, anim, engine>>
     /\ (/\ lastOp.name = "OnControl"
         /\ lastOp'.name = "Update") =>
          (IF lastOp.arg.has_reset /\ lastOp.arg.has_all /\ lastOp.arg.all
             THEN worldPose'[2] = <<1, 0, 0, 0>>
             ELSE worldPose'[2] = <<fusion.Q[1], -fusion.Q[4], -fusion.Q[2],
                                    fusion.Q[3]>>)
    ]_vars

\* A resetting message arrives after an Update() used a non-identity
\* orientation: the fusion is back at the identity, the camera untouched.
C9_Witness ==
  /\ lastOp.name = "OnControl"
  /\ lastOp.arg.has_reset /\ lastOp.arg.has_all /\ lastOp.arg.all
  /\ fusion.Q = <<1, 0, 0, 0>>
  /\ fusion.Stage = 0
  /\ worldPose[2] = <<1, -4, -2, 3>>

====
